---- MODULE Spec2Model ----
(***************************************************************************)
(* Model of src/output.py: the NS-3 RPL DAO experiment pipeline.           *)
(*                                                                         *)
(* The program runs, strictly in sequence: the module-level set-up         *)
(* (makedirs, path checks), main's check for the simulator source, three   *)
(* data collections (baseline, attack-frequency sweep, threshold sweep),   *)
(* each a series of run_simulation calls, the save of the three datasets,  *)
(* the rendering of six charts and the summary table.                      *)
(*                                                                         *)
(* Specifications: Spec is the whole program; SpecRun is one call of       *)
(* run_simulation over a wide space of artifacts; SpecReport is the charts *)
(* and the summary over a wide space of datasets; SpecSweep is two         *)
(* executions of the frequency sweep side by side; SpecSeq is the nineteen *)
(* calls with the start and the end of each child process as steps.        *)
(*                                                                         *)
(* Numbers: every real quantity of the program (pdr, delays) is held as an *)
(* integer in a fixed point of 1/100: pdr 0.75 is 75.  Counts are plain    *)
(* integers.  A CSV cell is a number, which is never negative here, or a   *)
(* text that read_csv leaves as a Python str, written Str.                 *)
(***************************************************************************)
EXTENDS Integers, Sequences, FiniteSets, TLC

VARIABLES
    pc,           \* position of the program
    idx,          \* position inside the running collection (1-based)
    fs,           \* the part of the filesystem the set-up code looks at
    artifacts,    \* NS3_PATH/results/run1_{pdr,delay,overhead}.csv
    invocations,  \* history: the calls of subprocess.run, in order
    result,       \* the local `result` of the last run_simulation call
    baseline_df,  \* collect_baseline_data's `scenarios`, then main's baseline_df
    freq_df,      \* collect_attack_frequency_data's `all_data`, then freq_df
    thresh_df,    \* collect_threshold_data's `all_data`, then thresh_df
    persisted,    \* the three CSV files written by main
    charts,       \* the figures saved by create_research_style_graphs
    summary,      \* what print_summary_table has printed
    error,        \* the uncaught exception or the exit message, and where
    budget,       \* how many more runs may deviate from the nominal outcome
    args,         \* the arguments of a direct run_simulation call
    twin          \* a second execution of the frequency sweep, side by side

vars == <<pc, idx, fs, artifacts, invocations, result, baseline_df, freq_df,
          thresh_df, persisted, charts, summary, error, budget, args, twin>>

----------------------------------------------------------------------------
(* Bounds of the model *)

\* Runs of one pipeline execution whose outcome is not the nominal one.
MaxFaults == 2

----------------------------------------------------------------------------
(* Program constants *)

DisabledThreshold == 1000000000
MitigationThreshold == 20
DefaultPps == 800
DefaultNodes == 25
DefaultWindow == 1
DefaultSimTime == 120
AttackerPkt == 120
Area == 60
RateKbps == 16

frequencies == <<200, 400, 600, 800, 1000>>
thresholds == <<5, 10, 20, 30, 50>>

----------------------------------------------------------------------------
(* CSV cells and artifacts *)

\* A cell that holds the number n; a cell that holds a text such as abc;
\* the test that tells them apart.
Num(n) == n
Str == -1
IsNum(c) == c >= 0

PdrCols == {"pdr", "tx", "rx"}
DelayCols == {"avg_delay_s"}
OverheadCols == {"control_tx", "control_rx", "control_dropped"}

\* A file as pd.read_csv meets it: st is "missing" (no such file), "empty"
\* (no bytes: EmptyDataError), "header" (a header row and no data row) or
\* "rows" (a header and a first data row, `row`).  `by` is history: the
\* number of the invocation that wrote the file, 0 for a file that was
\* there before the program started.
File(st, row, by) == [st |-> st, row |-> row, by |-> by]

\* Values a simulator run can write: without attack, under attack, and
\* under attack with the mitigation dropping control packets.
FixtureRPL == [pdr |-> 98, tx |-> 100, rx |-> 98, avg_delay_s |-> 1,
               control_tx |-> 50, control_rx |-> 50, control_dropped |-> 0]
FixtureA == [pdr |-> 75, tx |-> 100, rx |-> 75, avg_delay_s |-> 3,
             control_tx |-> 50, control_rx |-> 40, control_dropped |-> 0]
FixtureB == [pdr |-> 91, tx |-> 100, rx |-> 91, avg_delay_s |-> 2,
             control_tx |-> 50, control_rx |-> 30, control_dropped |-> 340]

RowOf(fx, cols) == [c \in cols |-> Num(fx[c])]

\* The three artifacts a well-behaved simulator run n leaves for fixture fx.
Written(fx, n) ==
    [pdr |-> File("rows", RowOf(fx, PdrCols), n),
     delay |-> File("rows", RowOf(fx, DelayCols), n),
     overhead |-> File("rows", RowOf(fx, OverheadCols), n)]

NoArtifacts ==
    [pdr |-> File("missing", RowOf(FixtureA, PdrCols), 0),
     delay |-> File("missing", RowOf(FixtureA, DelayCols), 0),
     overhead |-> File("missing", RowOf(FixtureA, OverheadCols), 0)]

----------------------------------------------------------------------------
(* The external simulator (subprocess.run, line 46) *)

\* The values a run that behaves writes: they depend on the command line
\* only.  With the attack on, the control traffic grows with the attacker's
\* rate and the mitigation forwards less of it the lower its threshold.
NominalFixture(cmd) ==
    IF cmd.attack = "false" THEN FixtureRPL
    ELSE IF cmd.threshold = DisabledThreshold
         THEN [FixtureA EXCEPT !.control_tx = @ + cmd.attackerPps \div 10,
                               !.control_rx = @ + cmd.attackerPps \div 10]
         ELSE [FixtureB EXCEPT !.control_tx = @ + cmd.attackerPps \div 10,
                               !.control_rx = @ + cmd.threshold]

\* What one `./ns3 run` does to the artifacts, by effect:
\*   "ok"            rewrites the three artifacts with the run's values
\*   "none"          leaves the artifacts as they are
\*   "delay_missing" rewrites pdr and overhead, leaves no delay artifact
\*   "pdr_text"      writes a text in the pdr column
\*   "dropped_text"  writes a text in the control_dropped column
SimEffect(effect, cmd, art, n) ==
    LET w == Written(NominalFixture(cmd), n) IN
    CASE effect = "ok" -> w
      [] effect = "none" -> art
      [] effect = "delay_missing" ->
            [w EXCEPT !.delay = File("missing", @.row, n)]
      [] effect = "pdr_text" ->
            [w EXCEPT !.pdr.row.pdr = Str]
      [] effect = "dropped_text" ->
            [w EXCEPT !.overhead.row.control_dropped = Str]

Outcome(exit, effect) == [exit |-> exit, effect |-> effect]

\* The budget of an execution in which every run ends with a non-zero exit
\* status.
EveryRunFails == -1

\* The nominal run: exit status 0 and three well-formed artifacts.
Nominal == Outcome(0, "ok")

\* The outcomes of one invocation inside the pipeline: the nominal one, a
\* non-zero exit (taken to leave the artifacts as they were), and an exit
\* with status 0 that rewrote nothing, left one artifact out, or wrote a
\* text where the pdr belongs.
SimOutcomes ==
    {Outcome(0, e) : e \in {"ok", "none", "delay_missing", "pdr_text"}}
    \cup {Outcome(1, "none")}

\* The outcomes of a run_simulation call on its own.
CallOutcomes == SimOutcomes \cup {Outcome(0, "dropped_text")}

----------------------------------------------------------------------------
(* run_simulation *)

Args(attack, attacker_pps, threshold, n_nodes, window, sim_time) ==
    [attack |-> attack, attacker_pps |-> attacker_pps, threshold |-> threshold,
     n_nodes |-> n_nodes, window |-> window, sim_time |-> sim_time]

\* The keyword defaults of run_simulation's signature.
Call(attack, attacker_pps, threshold) ==
    Args(attack, attacker_pps, threshold, DefaultNodes, DefaultWindow,
         DefaultSimTime)

\* Mutant of BuildCmd: the threshold is put on every command line.
BuildCmdForwardingThreshold(a) ==
    IF a.attack
    THEN [attack |-> "true", attackerPps |-> a.attacker_pps,
          attackerPkt |-> AttackerPkt, threshold |-> a.threshold,
          windowSec |-> a.window, nNodes |-> a.n_nodes, area |-> Area,
          rateKbps |-> RateKbps, simTime |-> a.sim_time]
    ELSE [attack |-> "false", threshold |-> a.threshold, nNodes |-> a.n_nodes,
          area |-> Area, rateKbps |-> RateKbps, simTime |-> a.sim_time]

\* The command line, as the record of the flags it carries.
BuildCmd(a) ==
    IF a.attack
    THEN [attack |-> "true", attackerPps |-> a.attacker_pps,
          attackerPkt |-> AttackerPkt, threshold |-> a.threshold,
          windowSec |-> a.window, nNodes |-> a.n_nodes, area |-> Area,
          rateKbps |-> RateKbps, simTime |-> a.sim_time]
    ELSE [attack |-> "false", nNodes |-> a.n_nodes, area |-> Area,
          rateKbps |-> RateKbps, simTime |-> a.sim_time]

\* delay['avg_delay_s'].values[0] * 1000: a number is multiplied, a Python
\* str is repeated 1000 times and stays a str.
Times1000(c) == IF IsNum(c) THEN Num(c * 1000) ELSE Str

NoRecord ==
    [pdr |-> Str, tx |-> Str, rx |-> Str, delay_ms |-> Str, ctrl_tx |-> Str,
     ctrl_rx |-> Str, ctrl_dropped |-> Str, run |-> 0, by |-> <<0, 0, 0>>]

None == [ok |-> FALSE, rec |-> NoRecord]
Some(rec) == [ok |-> TRUE, rec |-> rec]

\* pd.read_csv raises for a missing or an empty file; .values[0] raises for
\* a file without a data row.
Readable(f) == f.st = "rows"

\* Mutant of ParseResults: artifacts that this invocation did not write are
\* not parsed.
ParseResultsOwnOnly(art, n) ==
    IF /\ Readable(art.pdr) /\ Readable(art.delay) /\ Readable(art.overhead)
       /\ <<art.pdr.by, art.delay.by, art.overhead.by>> = <<n, n, n>>
    THEN Some([pdr |-> art.pdr.row.pdr,
               tx |-> art.pdr.row.tx,
               rx |-> art.pdr.row.rx,
               delay_ms |-> Times1000(art.delay.row.avg_delay_s),
               ctrl_tx |-> art.overhead.row.control_tx,
               ctrl_rx |-> art.overhead.row.control_rx,
               ctrl_dropped |-> art.overhead.row.control_dropped,
               run |-> n,
               by |-> <<art.pdr.by, art.delay.by, art.overhead.by>>])
    ELSE None

\* The try block of run_simulation.  `run` and `by` are history: the number
\* of the invocation the record is returned for and the writers of the three
\* files it was read from.
ParseResults(art, n) ==
    IF Readable(art.pdr) /\ Readable(art.delay) /\ Readable(art.overhead)
    THEN Some([pdr |-> art.pdr.row.pdr,
               tx |-> art.pdr.row.tx,
               rx |-> art.pdr.row.rx,
               delay_ms |-> Times1000(art.delay.row.avg_delay_s),
               ctrl_tx |-> art.overhead.row.control_tx,
               ctrl_rx |-> art.overhead.row.control_rx,
               ctrl_dropped |-> art.overhead.row.control_dropped,
               run |-> n,
               by |-> <<art.pdr.by, art.delay.by, art.overhead.by>>])
    ELSE None

\* One call: the command handed to the shell, the artifacts after the
\* process has ended, and the value returned.
RunSimulation(a, out, art, n) ==
    LET after == SimEffect(out.effect, BuildCmd(a), art, n) IN
    [cmd |-> BuildCmd(a),
     artifacts |-> after,
     result |-> IF out.exit # 0 THEN None ELSE ParseResults(after, n)]

\* The history entry of one call: the command, the exit status, whether a
\* record was returned, and the design and combination the call was made for.
Entry(design, combo, r, out) ==
    [cmd |-> r.cmd, exit |-> out.exit, ok |-> r.result.ok, design |-> design,
     combo |-> combo]

\* `if result:` a dict of seven keys is truthy, None is not.
Truthy(r) == r.ok

\* f"{result['pdr']:.3f}" raises ValueError for a str.
FormatRaises(c) == ~IsNum(c)

----------------------------------------------------------------------------
(* Datasets *)

\* result['key'] = value on a dict.
With(r, k, v) == [x \in DOMAIN r \cup {k} |-> IF x = k THEN v ELSE r[x]]

\* df[df['scenario'] == label], as the sequence of the matching rows.
RECURSIVE Filter(_, _)
Filter(df, label) ==
    IF df = <<>> THEN <<>>
    ELSE IF Head(df).scenario = label
         THEN <<Head(df)>> \o Filter(Tail(df), label)
         ELSE Filter(Tail(df), label)

\* label in df['scenario'].values
HasScenario(df, label) == \E i \in 1..Len(df) : df[i].scenario = label

Range(q) == {q[i] : i \in 1..Len(q)}

----------------------------------------------------------------------------
(* Initial states *)

\* The set-up code looks at NS3_PATH, NS3_PATH/scratch, the simulator source
\* in scratch and NS3_PATH/paper_graphs; `creatable` says whether os.makedirs
\* is allowed to create what is missing (it has nothing to create, and the
\* flag is kept TRUE, when paper_graphs exists).
FsStates ==
    {f \in [ns3 : BOOLEAN, scratch : BOOLEAN, code : BOOLEAN,
            results : BOOLEAN, creatable : BOOLEAN] :
        /\ f.scratch => f.ns3
        /\ f.code => f.scratch
        /\ f.results => f.ns3
        /\ f.results => f.creatable}

FsReady == [ns3 |-> TRUE, scratch |-> TRUE, code |-> TRUE, results |-> TRUE,
            creatable |-> TRUE]

\* The results location is empty, or holds the artifacts of an earlier
\* execution.
InitialArtifacts == {NoArtifacts, Written(FixtureRPL, 0)}

NoError == [at |-> "", what |-> ""]
Raised(at, what) == [at |-> at, what |-> what]

NotSaved == [saved |-> FALSE, baseline |-> <<>>, freq |-> <<>>, thresh |-> <<>>]

NoArgs == Call(FALSE, DefaultPps, MitigationThreshold)

\* No second execution: only the side-by-side sweep has one.
NoTwin == [artifacts |-> NoArtifacts, freq_df |-> <<>>, same |-> TRUE]

InitData ==
    /\ invocations = <<>>
    /\ result = None
    /\ baseline_df = <<>>
    /\ freq_df = <<>>
    /\ thresh_df = <<>>
    /\ persisted = NotSaved
    /\ charts = {}
    /\ summary = <<>>
    /\ error = NoError

Init ==
    /\ pc = "import"
    /\ idx = 0
    /\ fs \in FsStates
    /\ artifacts \in InitialArtifacts
    /\ budget \in {MaxFaults, EveryRunFails}
    /\ args = NoArgs
    /\ twin = NoTwin
    /\ InitData

----------------------------------------------------------------------------
(* Module level, lines 19-28, and main's check, lines 397-405 *)

\* os.makedirs(RESULTS_DIR, exist_ok=True): creates NS3_PATH/paper_graphs and
\* every missing parent, or raises when it may not.
MakeResultsDir ==
    /\ pc = "import"
    /\ IF fs.results
       THEN /\ pc' = "verify"
            /\ UNCHANGED <<fs, error>>
       ELSE IF fs.creatable
            THEN /\ fs' = [fs EXCEPT !.ns3 = TRUE, !.results = TRUE]
                 /\ pc' = "verify"
                 /\ UNCHANGED error
            ELSE /\ pc' = "raised"
                 /\ error' = Raised("module", "OSError")
                 /\ UNCHANGED fs
    /\ UNCHANGED <<idx, artifacts, invocations, result, baseline_df, freq_df,
                   thresh_df, persisted, charts, summary, budget, args,
                   twin>>

VerifyPaths ==
    /\ pc = "verify"
    /\ IF ~fs.ns3
       THEN pc' = "exit1" /\ error' = Raised("module", "NS-3 path not found")
       ELSE IF ~fs.scratch
            THEN pc' = "exit1" /\ error' = Raised("module", "Scratch folder not found")
            ELSE pc' = "main" /\ UNCHANGED error
    /\ UNCHANGED <<idx, fs, artifacts, invocations, result, baseline_df,
                   freq_df, thresh_df, persisted, charts, summary, budget, args,
                   twin>>

\* Mutant of MainCheckCode: the missing source is reported and main goes on.
MainCheckCodeGoesOn ==
    /\ pc = "main"
    /\ pc' = "baseline"
    /\ idx' = 1
    /\ error' = IF ~fs.code THEN Raised("main", "Code file not found") ELSE error
    /\ UNCHANGED <<fs, artifacts, invocations, result, baseline_df, freq_df,
                   thresh_df, persisted, charts, summary, budget, args,
                   twin>>

MainCheckCode ==
    /\ pc = "main"
    /\ IF ~fs.code
       THEN pc' = "returned" /\ error' = Raised("main", "Code file not found") /\ UNCHANGED idx
       ELSE pc' = "baseline" /\ idx' = 1 /\ UNCHANGED error
    /\ UNCHANGED <<fs, artifacts, invocations, result, baseline_df, freq_df,
                   thresh_df, persisted, charts, summary, budget, args,
                   twin>>

----------------------------------------------------------------------------
(* The three collections, lines 70-163 *)

\* An outcome other than the nominal one spends one unit of the budget; in
\* the execution in which every run fails no other outcome is taken.
Allowed(out) ==
    IF budget = EveryRunFails THEN out = Outcome(1, "none")
    ELSE out = Nominal \/ budget > 0
Spend(out) ==
    IF budget = EveryRunFails \/ out = Nominal THEN budget ELSE budget - 1

\* Mutant of BaselineRuns: the labels of the two attack runs are exchanged.
BaselineRunsSwapped ==
    <<[a |-> Call(FALSE, DefaultPps, MitigationThreshold), label |-> "RPL"],
      [a |-> Call(TRUE, DefaultPps, DisabledThreshold), label |-> "SecRPL"],
      [a |-> Call(TRUE, DefaultPps, MitigationThreshold), label |-> "InsecRPL"]>>

\* collect_baseline_data's three calls and the label each result is given.
BaselineRuns ==
    <<[a |-> Call(FALSE, DefaultPps, MitigationThreshold), label |-> "RPL"],
      [a |-> Call(TRUE, DefaultPps, DisabledThreshold), label |-> "InsecRPL"],
      [a |-> Call(TRUE, DefaultPps, MitigationThreshold), label |-> "SecRPL"]>>

\* One of the three blocks of collect_baseline_data: the call, the label, the
\* append and the print of the pdr, which raises for a pdr that is a str.
\* After the third block the function returns the DataFrame.
CollectBaselineStep ==
    /\ pc = "baseline"
    /\ idx \in 1..Len(BaselineRuns)
    /\ \E out \in SimOutcomes :
        /\ Allowed(out)
        /\ LET c == BaselineRuns[idx]
               r == RunSimulation(c.a, out, artifacts, Len(invocations) + 1)
               labelled == With(r.result.rec, "scenario", c.label)
               raises == Truthy(r.result) /\ FormatRaises(r.result.rec.pdr)
           IN /\ invocations' = Append(invocations,
                                       Entry("baseline", idx, r, out))
              /\ artifacts' = r.artifacts
              /\ budget' = Spend(out)
              /\ result' = IF Truthy(r.result) THEN Some(labelled) ELSE r.result
              /\ baseline_df' = IF Truthy(r.result)
                                THEN Append(baseline_df, labelled)
                                ELSE baseline_df
              /\ IF raises
                 THEN /\ pc' = "raised"
                      /\ error' = Raised("collect_baseline_data", "ValueError")
                      /\ UNCHANGED idx
                 ELSE IF idx = Len(BaselineRuns)
                      THEN pc' = "freq" /\ idx' = 1 /\ UNCHANGED error
                      ELSE idx' = idx + 1 /\ UNCHANGED <<pc, error>>
    /\ UNCHANGED <<fs, freq_df, thresh_df, persisted, charts, summary, args,
                   twin>>

\* Mutant of FreqRun: the loop variable is not used, every run is made and
\* recorded for the first rate.
FreqRunSameRate(i) ==
    IF i % 2 = 1
    THEN [a |-> Call(TRUE, frequencies[1], DisabledThreshold),
          label |-> "InsecRPL", pps |-> frequencies[1]]
    ELSE [a |-> Call(TRUE, frequencies[1], MitigationThreshold),
          label |-> "SecRPL", pps |-> frequencies[1]]

\* The runs of the loop over frequencies: for each rate InsecRPL, then SecRPL.
FreqRun(i) ==
    LET pps == frequencies[(i + 1) \div 2] IN
    IF i % 2 = 1
    THEN [a |-> Call(TRUE, pps, DisabledThreshold), label |-> "InsecRPL",
          pps |-> pps]
    ELSE [a |-> Call(TRUE, pps, MitigationThreshold), label |-> "SecRPL",
          pps |-> pps]

NumFreqRuns == 2 * Len(frequencies)

\* One call of the loop body of collect_attack_frequency_data.
CollectFreqAttackStep ==
    /\ pc = "freq"
    /\ idx \in 1..NumFreqRuns
    /\ \E out \in SimOutcomes :
        /\ Allowed(out)
        /\ LET c == FreqRun(idx)
               r == RunSimulation(c.a, out, artifacts, Len(invocations) + 1)
               labelled == With(With(r.result.rec, "scenario", c.label),
                                "attack_pps", c.pps)
           IN /\ invocations' = Append(invocations, Entry("freq", idx, r, out))
              /\ artifacts' = r.artifacts
              /\ budget' = Spend(out)
              /\ result' = IF Truthy(r.result) THEN Some(labelled) ELSE r.result
              /\ freq_df' = IF Truthy(r.result)
                            THEN Append(freq_df, labelled)
                            ELSE freq_df
    /\ idx' = idx + 1
    /\ UNCHANGED <<pc, fs, baseline_df, thresh_df, persisted, charts, summary,
                   error, args, twin>>

\* Mutant of Broadcast: the RPL result is attached to the first rate only.
BroadcastFirstRateOnly(rec) ==
    <<With(With(rec, "scenario", "RPL"), "attack_pps", frequencies[1])>>

\* Mutant of Broadcast: the copies are appended from the highest rate down.
BroadcastDescending(rec) ==
    [i \in 1..Len(frequencies) |->
        With(With(rec, "scenario", "RPL"), "attack_pps",
             frequencies[Len(frequencies) + 1 - i])]

\* for pps in frequencies: a copy of the one RPL result per rate.
Broadcast(rec) ==
    [i \in 1..Len(frequencies) |->
        With(With(rec, "scenario", "RPL"), "attack_pps", frequencies[i])]

\* The RPL baseline of the frequency sweep, lines 133-142: one call, its
\* result copied to every rate, and the return of the DataFrame.
CollectFreqBaselineStep ==
    /\ pc = "freq"
    /\ idx = NumFreqRuns + 1
    /\ \E out \in SimOutcomes :
        /\ Allowed(out)
        /\ LET r == RunSimulation(Call(FALSE, DefaultPps, MitigationThreshold),
                                  out, artifacts, Len(invocations) + 1)
           IN /\ invocations' = Append(invocations, Entry("freq", idx, r, out))
              /\ artifacts' = r.artifacts
              /\ budget' = Spend(out)
              /\ result' = r.result
              /\ freq_df' = IF Truthy(r.result)
                            THEN freq_df \o Broadcast(r.result.rec)
                            ELSE freq_df
    /\ pc' = "thresh"
    /\ idx' = 1
    /\ UNCHANGED <<fs, baseline_df, thresh_df, persisted, charts, summary,
                   error, args, twin>>

\* One iteration of the loop of collect_threshold_data; after the last one
\* the function returns the DataFrame.
CollectThresholdStep ==
    /\ pc = "thresh"
    /\ idx \in 1..Len(thresholds)
    /\ \E out \in SimOutcomes :
        /\ Allowed(out)
        /\ LET thresh == thresholds[idx]
               r == RunSimulation(Call(TRUE, DefaultPps, thresh), out,
                                  artifacts, Len(invocations) + 1)
               labelled == With(With(r.result.rec, "scenario", "SecRPL"),
                                "threshold", thresh)
               raises == Truthy(r.result) /\ FormatRaises(r.result.rec.pdr)
           IN /\ invocations' = Append(invocations, Entry("thresh", idx, r, out))
              /\ artifacts' = r.artifacts
              /\ budget' = Spend(out)
              /\ result' = IF Truthy(r.result) THEN Some(labelled) ELSE r.result
              /\ thresh_df' = IF Truthy(r.result)
                              THEN Append(thresh_df, labelled)
                              ELSE thresh_df
              /\ IF raises
                 THEN /\ pc' = "raised"
                      /\ error' = Raised("collect_threshold_data", "ValueError")
                      /\ UNCHANGED idx
                 ELSE IF idx = Len(thresholds)
                      THEN pc' = "save" /\ idx' = 0 /\ UNCHANGED error
                      ELSE idx' = idx + 1 /\ UNCHANGED <<pc, error>>
    /\ UNCHANGED <<fs, baseline_df, freq_df, persisted, charts, summary, args,
                   twin>>

----------------------------------------------------------------------------
(* main after the collections, lines 412-423 *)

\* Mutant of SaveRawData: only the baseline dataset is written.
SaveBaselineOnly ==
    /\ pc = "save"
    /\ persisted' = [saved |-> TRUE, baseline |-> baseline_df,
                     freq |-> <<>>, thresh |-> <<>>]
    /\ pc' = "graphs"
    /\ UNCHANGED <<idx, fs, artifacts, invocations, result, baseline_df,
                   freq_df, thresh_df, charts, summary, error, budget, args,
                   twin>>

\* The three to_csv calls.
SaveRawData ==
    /\ pc = "save"
    /\ persisted' = [saved |-> TRUE, baseline |-> baseline_df,
                     freq |-> freq_df, thresh |-> thresh_df]
    /\ pc' = "graphs"
    /\ UNCHANGED <<idx, fs, artifacts, invocations, result, baseline_df,
                   freq_df, thresh_df, charts, summary, error, budget, args,
                   twin>>

Scenarios == <<"RPL", "InsecRPL", "SecRPL">>

\* Graphs 1-3: one series per scenario that has rows in freq_df.
FreqSeries(df) == {l \in Range(Scenarios) : Filter(df, l) # <<>>}

FreqCharts(df) ==
    IF df # <<>>
    THEN {[fig |-> n, series |-> FreqSeries(df)] : n \in 1..3}
    ELSE {}

\* Graph 4 indexes .values[0] of the RPL rows and of the InsecRPL rows of a
\* baseline that is not empty: IndexError when there is no such row.
Graph4Raises(base, thr) ==
    /\ thr # <<>>
    /\ base # <<>>
    /\ (Filter(base, "RPL") = <<>> \/ Filter(base, "InsecRPL") = <<>>)

Graph4(base, thr) ==
    IF thr # <<>>
    THEN {[fig |-> 4,
           series |-> {"SecRPL"} \cup (IF base # <<>>
                                       THEN {"RPL (Baseline)", "InsecRPL"}
                                       ELSE {})]}
    ELSE {}

Graph5(thr) ==
    IF thr # <<>> THEN {[fig |-> 5, series |-> {"SecRPL"}]} ELSE {}

\* Graph 6 formats every pdr (.3f) and delay (.1f) and takes int() of every
\* ctrl_rx of the baseline: ValueError for a str.
Graph6Raises(base) ==
    \E i \in 1..Len(base) :
        \/ FormatRaises(base[i].pdr)
        \/ FormatRaises(base[i].delay_ms)
        \/ ~IsNum(base[i].ctrl_rx)

Graph6(base) ==
    IF base # <<>>
    THEN {[fig |-> 6, series |-> {base[i].scenario : i \in 1..Len(base)}]}
    ELSE {}

\* The figures saved before create_research_style_graphs returns or raises.
\* The plotting calls themselves are the charting backend and are taken not
\* to raise.
ChartsSaved(base, frq, thr) ==
    FreqCharts(frq)
    \cup (IF Graph4Raises(base, thr) THEN {}
          ELSE Graph4(base, thr) \cup Graph5(thr)
               \cup (IF Graph6Raises(base) THEN {} ELSE Graph6(base)))

GraphsRaise(base, thr) ==
    IF Graph4Raises(base, thr) THEN "IndexError"
    ELSE IF Graph6Raises(base) THEN "ValueError"
    ELSE ""

CreateResearchStyleGraphs ==
    /\ pc = "graphs"
    /\ charts' = ChartsSaved(baseline_df, freq_df, thresh_df)
    /\ error' = IF GraphsRaise(baseline_df, thresh_df) = "" THEN NoError
                ELSE Raised("create_research_style_graphs",
                            GraphsRaise(baseline_df, thresh_df))
    /\ pc' = IF GraphsRaise(baseline_df, thresh_df) = "" THEN "summary"
             ELSE "raised"
    /\ UNCHANGED <<idx, fs, artifacts, invocations, result, baseline_df,
                   freq_df, thresh_df, persisted, summary, budget, args, twin>>

\* Rounding of n/d to the nearest integer.
RoundDiv(n, d) == (2 * n + d) \div (2 * d)

\* Mutant of Improvement: a negative improvement is reported as zero.
ImprovementClamped(insec, sec) ==
    IF insec = 0 THEN [finite |-> FALSE, v |-> 0]
    ELSE IF sec < insec THEN [finite |-> TRUE, v |-> 0]
    ELSE [finite |-> TRUE, v |-> RoundDiv((sec - insec) * 10000, insec)]

\* ((sec_pdr - insec_pdr) / insec_pdr) * 100 as printed with two decimals:
\* in 1/100 of a percent.  numpy's division by zero gives inf or nan and does
\* not raise: printed as inf, here the value 0 with `finite` FALSE.
Improvement(insec, sec) ==
    IF insec = 0 THEN [finite |-> FALSE, v |-> 0]
    ELSE [finite |-> TRUE, v |-> RoundDiv((sec - insec) * 10000, insec)]

\* (1 - insec_pdr) * 100 in 1/100 of a percent (pdr is held in 1/100).
Degradation(insec) == [finite |-> TRUE, v |-> (100 - insec) * 100]

\* Mutant of BothPresent: the RPL row is required too.
BothPresentWithBaseline(base) ==
    /\ HasScenario(base, "RPL")
    /\ HasScenario(base, "InsecRPL")
    /\ HasScenario(base, "SecRPL")

\* 'InsecRPL' in baseline_df['scenario'].values and 'SecRPL' in ...
BothPresent(base) ==
    HasScenario(base, "InsecRPL") /\ HasScenario(base, "SecRPL")

Line(what, val) == [what |-> what, val |-> val]

\* The lines print_summary_table prints: the baseline table, then, with both
\* an InsecRPL and a SecRPL row, the two key findings and the blocked count.
\* int(blocked) raises ValueError for a str, after the findings are printed;
\* the arithmetic on a pdr that is a str raises TypeError before them.
SummaryLines(base) ==
    IF base = <<>> THEN <<>>
    ELSE <<Line("table", [finite |-> TRUE, v |-> Len(base)])>> \o
         (IF BothPresent(base)
          THEN LET insec == Filter(base, "InsecRPL")[1]
                   sec == Filter(base, "SecRPL")[1]
               IN IF ~IsNum(insec.pdr) \/ ~IsNum(sec.pdr) THEN <<>>
                  ELSE <<Line("improvement", Improvement(insec.pdr, sec.pdr)),
                         Line("degradation", Degradation(insec.pdr))>> \o
                       (IF IsNum(sec.ctrl_dropped)
                        THEN <<Line("blocked",
                                    [finite |-> TRUE, v |-> sec.ctrl_dropped])>>
                        ELSE <<>>)
          ELSE <<>>)

SummaryRaises(base) ==
    IF base # <<>> /\ BothPresent(base)
    THEN LET insec == Filter(base, "InsecRPL")[1]
             sec == Filter(base, "SecRPL")[1]
         IN IF ~IsNum(insec.pdr) \/ ~IsNum(sec.pdr) THEN "TypeError"
            ELSE IF ~IsNum(sec.ctrl_dropped) THEN "ValueError"
            ELSE ""
    ELSE ""

PrintSummaryTable ==
    /\ pc = "summary"
    /\ summary' = SummaryLines(baseline_df)
    /\ error' = IF SummaryRaises(baseline_df) = "" THEN NoError
                ELSE Raised("print_summary_table", SummaryRaises(baseline_df))
    /\ pc' = IF SummaryRaises(baseline_df) = "" THEN "done" ELSE "raised"
    /\ UNCHANGED <<idx, fs, artifacts, invocations, result, baseline_df,
                   freq_df, thresh_df, persisted, charts, budget, args, twin>>

----------------------------------------------------------------------------
(* The pipeline *)

Next ==
    \/ MakeResultsDir
    \/ VerifyPaths
    \/ MainCheckCode
    \/ CollectBaselineStep
    \/ CollectFreqAttackStep
    \/ CollectFreqBaselineStep
    \/ CollectThresholdStep
    \/ SaveRawData
    \/ CreateResearchStyleGraphs
    \/ PrintSummaryTable

Spec == Init /\ [][Next]_vars

----------------------------------------------------------------------------
(* run_simulation called on its own: every argument combination of ArgSpace *)
(* against every state of the three artifacts of ArtifactSpace.             *)

ArgSpace ==
    {Args(attack, pps, th, DefaultNodes, w, DefaultSimTime) :
        attack \in BOOLEAN,
        pps \in {frequencies[1], DefaultPps},
        th \in {MitigationThreshold, DisabledThreshold},
        w \in {DefaultWindow, DefaultWindow + 1}}

\* A file that is missing, empty or header-only, or holds a row in which any
\* set of the columns holds a text.
FileSpace(cols) ==
    {File(st, RowOf(FixtureA, cols), 0) : st \in {"missing", "empty", "header"}}
    \cup {File("rows",
               [c \in cols |-> IF c \in T THEN Str ELSE Num(FixtureA[c])], 0) :
            T \in SUBSET cols}

ArtifactSpace ==
    {[pdr |-> p, delay |-> d, overhead |-> o] :
        p \in FileSpace(PdrCols), d \in FileSpace(DelayCols),
        o \in FileSpace(OverheadCols)}

InitRun ==
    /\ pc = "call"
    /\ idx = 0
    /\ fs = FsReady
    /\ artifacts \in ArtifactSpace
    /\ budget = 0
    /\ args \in ArgSpace
    /\ twin = NoTwin
    /\ InitData

RunSimulationCall ==
    /\ pc = "call"
    /\ \E out \in CallOutcomes :
        LET r == RunSimulation(args, out, artifacts, 1)
        IN /\ invocations' = <<Entry("call", 1, r, out)>>
           /\ artifacts' = r.artifacts
           /\ result' = r.result
    /\ pc' = "called"
    /\ UNCHANGED <<idx, fs, baseline_df, freq_df, thresh_df, persisted, charts,
                   summary, error, budget, args, twin>>

NextRun == RunSimulationCall

SpecRun == InitRun /\ [][NextRun]_vars

----------------------------------------------------------------------------
(* The reporting half of main on its own: create_research_style_graphs and  *)
(* print_summary_table from the state main is in after the three to_csv     *)
(* calls, for the datasets the collections can return.  The history of the  *)
(* calls that built the datasets is not kept here.                          *)

\* The record run_simulation returns for run n, called with arguments a,
\* when the simulator's effect on the artifacts is `effect`.
RecordFor(effect, a, n) ==
    ParseResults(SimEffect(effect, BuildCmd(a), NoArtifacts, n), n).rec

\* What a baseline run can contribute once collect_baseline_data has
\* returned: nothing, or a record whose pdr is a number; its values are
\* those of any of the three fixtures.
BaselineChoices ==
    {[effect |-> "absent", values |-> 1]}
    \cup {[effect |-> e, values |-> j] :
            e \in {"ok", "dropped_text"}, j \in 1..Len(BaselineRuns)}

BaselineOf(ch) ==
    LET Row(i) == IF ch[i].effect = "absent" THEN <<>>
                  ELSE <<With(RecordFor(ch[i].effect,
                                        BaselineRuns[ch[i].values].a, i),
                              "scenario", BaselineRuns[i].label)>>
    IN Row(1) \o Row(2) \o Row(3)

BaselineSpace ==
    {BaselineOf(ch) : ch \in [1..Len(BaselineRuns) -> BaselineChoices]}

\* The frequency dataset when exactly the runs in S (1..11) returned a record.
RECURSIVE FreqOf(_, _)
FreqOf(S, i) ==
    IF i > NumFreqRuns + 1 THEN <<>>
    ELSE (IF i \notin S THEN <<>>
          ELSE IF i = NumFreqRuns + 1
               THEN Broadcast(RecordFor("ok", NoArgs, Len(BaselineRuns) + i))
               ELSE <<With(With(RecordFor("ok", FreqRun(i).a,
                                          Len(BaselineRuns) + i),
                                "scenario", FreqRun(i).label),
                           "attack_pps", FreqRun(i).pps)>>)
         \o FreqOf(S, i + 1)

FreqSpace ==
    {FreqOf(S, 1) : S \in {{}, 1..(NumFreqRuns + 1), {1}, {NumFreqRuns + 1},
                           {2, 4}}}

\* The threshold dataset when exactly the runs in S (1..5) returned a record.
RECURSIVE ThreshOf(_, _)
ThreshOf(S, i) ==
    IF i > Len(thresholds) THEN <<>>
    ELSE (IF i \notin S THEN <<>>
          ELSE <<With(With(RecordFor("ok", Call(TRUE, DefaultPps, thresholds[i]),
                                     Len(BaselineRuns) + NumFreqRuns + 1 + i),
                           "scenario", "SecRPL"),
                      "threshold", thresholds[i])>>)
         \o ThreshOf(S, i + 1)

ThreshSpace ==
    {ThreshOf(S, 1) : S \in {{}, 1..Len(thresholds), {1, 2, 3, 5}}}

InitReport ==
    /\ pc = "graphs"
    /\ idx = 0
    /\ fs = FsReady
    /\ artifacts = NoArtifacts
    /\ invocations = <<>>
    /\ result = None
    /\ baseline_df \in BaselineSpace
    /\ freq_df \in FreqSpace
    /\ thresh_df \in ThreshSpace
    /\ persisted = [saved |-> TRUE, baseline |-> baseline_df,
                    freq |-> freq_df, thresh |-> thresh_df]
    /\ charts = {}
    /\ summary = <<>>
    /\ error = NoError
    /\ budget = 0
    /\ args = NoArgs
    /\ twin = NoTwin

NextReport ==
    \/ CreateResearchStyleGraphs
    \/ PrintSummaryTable

SpecReport == InitReport /\ [][NextReport]_vars

----------------------------------------------------------------------------
(* Two executions of collect_attack_frequency_data, side by side *)

\* The call collect_attack_frequency_data makes as its i-th: the runs of the
\* loop over the rates, then the one RPL baseline run.
SweepCall(i) ==
    IF i <= NumFreqRuns THEN FreqRun(i).a
    ELSE Call(FALSE, DefaultPps, MitigationThreshold)

\* The rows it appends for the result r of its i-th call: none for None, the
\* labelled result of a loop run, the copies of the RPL result.
SweepRows(i, r) ==
    IF ~Truthy(r) THEN <<>>
    ELSE IF i <= NumFreqRuns
         THEN <<With(With(r.rec, "scenario", FreqRun(i).label),
                     "attack_pps", FreqRun(i).pps)>>
         ELSE Broadcast(r.rec)

\* What can be read from the three artifacts: whether each is there and has
\* a row, and the row.  Who wrote a file is not part of its content.
Contents(art) ==
    [f \in {"pdr", "delay", "overhead"} |->
        IF Readable(art[f]) THEN [st |-> art[f].st, row |-> art[f].row]
        ELSE [st |-> art[f].st, row |-> <<>>]]

\* The artifacts a sweep may find when it starts: none, or those left by a
\* run of its first or of its last combination in an earlier execution.
SweepInitialArtifacts ==
    {NoArtifacts}
    \cup {Written(NominalFixture(BuildCmd(SweepCall(i))), 0) :
             i \in {1, NumFreqRuns + 1}}

InitSweep ==
    /\ pc = "freq"
    /\ idx = 1
    /\ fs = FsReady
    /\ artifacts \in SweepInitialArtifacts
    /\ InitData
    /\ budget = MaxFaults
    /\ args = NoArgs
    /\ twin \in {[artifacts |-> a, freq_df |-> <<>>, same |-> TRUE] :
                    a \in SweepInitialArtifacts}

\* How many of the two outcomes are not the nominal one.
Faults(out1, out2) ==
    (IF out1 = Nominal THEN 0 ELSE 1) + (IF out2 = Nominal THEN 0 ELSE 1)

\* The i-th call of both executions.  `same` records that so far every
\* invocation of the one execution had the exit status of, and left the
\* artifact contents of, the same invocation of the other.
SweepPairStep ==
    /\ pc = "freq"
    /\ idx \in 1..(NumFreqRuns + 1)
    /\ \E out1, out2 \in SimOutcomes :
        /\ Faults(out1, out2) <= budget
        /\ LET n == Len(invocations) + 1
               r1 == RunSimulation(SweepCall(idx), out1, artifacts, n)
               r2 == RunSimulation(SweepCall(idx), out2, twin.artifacts, n)
           IN /\ invocations' = Append(invocations,
                                       Entry("freq", idx, r1, out1))
              /\ artifacts' = r1.artifacts
              /\ result' = IF Truthy(r1.result) /\ idx <= NumFreqRuns
                           THEN Some(SweepRows(idx, r1.result)[1])
                           ELSE r1.result
              /\ freq_df' = freq_df \o SweepRows(idx, r1.result)
              /\ twin' = [artifacts |-> r2.artifacts,
                          freq_df |-> twin.freq_df \o SweepRows(idx, r2.result),
                          same |-> /\ twin.same
                                   /\ out1.exit = out2.exit
                                   /\ Contents(r1.artifacts)
                                        = Contents(r2.artifacts)]
              /\ budget' = budget - Faults(out1, out2)
    /\ IF idx = NumFreqRuns + 1
       THEN pc' = "returned" /\ UNCHANGED idx
       ELSE idx' = idx + 1 /\ UNCHANGED pc
    /\ UNCHANGED <<fs, baseline_df, thresh_df, persisted, charts, summary,
                   error, args>>

NextSweep == SweepPairStep

SpecSweep == InitSweep /\ [][NextSweep]_vars

----------------------------------------------------------------------------
(* The calls of the three collections, step by step *)

\* subprocess.run starts the child process and returns when it has ended;
\* run_simulation then reads the artifacts and returns, and its caller
\* appends.  Here each of the four is a step of its own, and the history
\* entry of a call says how far the call has got.

\* The exit status of a process that has not ended.
Running == -1

SeqEntry(design, combo, cmd, exit, ok, phase) ==
    [cmd |-> cmd, exit |-> exit, ok |-> ok, design |-> design,
     combo |-> combo, phase |-> phase]

Last == invocations[Len(invocations)]

\* The call the running collection makes at its position idx.
CurrentCall ==
    CASE pc = "baseline" -> BaselineRuns[idx].a
      [] pc = "freq" -> SweepCall(idx)
      [] pc = "thresh" -> Call(TRUE, DefaultPps, thresholds[idx])

\* The rows the collection appends for the result r of that call.
CurrentRows(r) ==
    IF ~Truthy(r) THEN <<>>
    ELSE CASE pc = "baseline" ->
                <<With(r.rec, "scenario", BaselineRuns[idx].label)>>
           [] pc = "freq" -> SweepRows(idx, r)
           [] pc = "thresh" ->
                <<With(With(r.rec, "scenario", "SecRPL"),
                       "threshold", thresholds[idx])>>

\* Runs of one step-by-step execution whose outcome is not the nominal one.
MaxSeqFaults == 1

InitSeq ==
    /\ pc = "baseline"
    /\ idx = 1
    /\ fs = FsReady
    /\ artifacts \in InitialArtifacts
    /\ budget = MaxSeqFaults
    /\ args = NoArgs
    /\ twin = NoTwin
    /\ InitData

\* Mutant of Launch: the process is started without waiting for the one
\* before it.
LaunchWithoutWaiting ==
    /\ pc \in {"baseline", "freq", "thresh"}
    /\ Len(invocations) < 2
    /\ invocations' = Append(invocations,
                             SeqEntry(pc, idx, BuildCmd(CurrentCall),
                                      Running, FALSE, "running"))
    /\ UNCHANGED <<pc, idx, fs, artifacts, result, baseline_df, freq_df,
                   thresh_df, persisted, charts, summary, error, budget,
                   args, twin>>

\* subprocess.run, line 46, starts the command of the current combination:
\* the call before it, if any, has been collected.
Launch ==
    /\ pc \in {"baseline", "freq", "thresh"}
    /\ IF invocations = <<>> THEN TRUE ELSE Last.phase = "collected"
    /\ invocations' = Append(invocations,
                             SeqEntry(pc, idx, BuildCmd(CurrentCall),
                                      Running, FALSE, "running"))
    /\ UNCHANGED <<pc, idx, fs, artifacts, result, baseline_df, freq_df,
                   thresh_df, persisted, charts, summary, error, budget,
                   args, twin>>

\* The process ends, with its exit status and its effect on the artifacts,
\* and subprocess.run returns.
ProcessEnds ==
    /\ invocations # <<>>
    /\ Last.phase = "running"
    /\ \E out \in SimOutcomes :
        /\ Allowed(out)
        /\ artifacts' = SimEffect(out.effect, Last.cmd, artifacts,
                                  Len(invocations))
        /\ invocations' = [invocations EXCEPT ![Len(invocations)] =
                              [@ EXCEPT !.exit = out.exit,
                                        !.phase = "exited"]]
        /\ budget' = Spend(out)
    /\ UNCHANGED <<pc, idx, fs, result, baseline_df, freq_df, thresh_df,
                   persisted, charts, summary, error, args, twin>>

\* Lines 48-68: None for a non-zero status, else the artifacts are read.
ReadResults ==
    /\ invocations # <<>>
    /\ Last.phase = "exited"
    /\ result' = IF Last.exit # 0 THEN None
                 ELSE ParseResults(artifacts, Len(invocations))
    /\ invocations' = [invocations EXCEPT ![Len(invocations)] =
                          [@ EXCEPT !.ok = Truthy(result'),
                                    !.phase = "returned"]]
    /\ UNCHANGED <<pc, idx, fs, artifacts, baseline_df, freq_df, thresh_df,
                   persisted, charts, summary, error, budget, args, twin>>

\* The caller labels and appends the result, prints, and goes on to its
\* next combination, to the next collection or to the save.
CollectResult ==
    /\ invocations # <<>>
    /\ Last.phase = "returned"
    /\ invocations' = [invocations EXCEPT ![Len(invocations)] =
                          [@ EXCEPT !.phase = "collected"]]
    /\ baseline_df' = IF pc = "baseline"
                      THEN baseline_df \o CurrentRows(result) ELSE baseline_df
    /\ freq_df' = IF pc = "freq"
                  THEN freq_df \o CurrentRows(result) ELSE freq_df
    /\ thresh_df' = IF pc = "thresh"
                    THEN thresh_df \o CurrentRows(result) ELSE thresh_df
    /\ result' = IF Truthy(result) /\ ~(pc = "freq" /\ idx > NumFreqRuns)
                 THEN Some(CurrentRows(result)[1]) ELSE result
    /\ IF pc \in {"baseline", "thresh"} /\ Truthy(result)
          /\ FormatRaises(result.rec.pdr)
       THEN /\ error' = Raised(IF pc = "baseline" THEN "collect_baseline_data"
                               ELSE "collect_threshold_data", "ValueError")
            /\ pc' = "raised"
            /\ UNCHANGED idx
       ELSE /\ UNCHANGED error
            /\ CASE pc = "baseline" /\ idx = Len(BaselineRuns) ->
                        pc' = "freq" /\ idx' = 1
                 [] pc = "freq" /\ idx = NumFreqRuns + 1 ->
                        pc' = "thresh" /\ idx' = 1
                 [] pc = "thresh" /\ idx = Len(thresholds) ->
                        pc' = "save" /\ idx' = 0
                 [] OTHER -> idx' = idx + 1 /\ UNCHANGED pc
    /\ UNCHANGED <<fs, artifacts, persisted, charts, summary, budget, args,
                   twin>>

NextSeq == Launch \/ ProcessEnds \/ ReadResults \/ CollectResult

SpecSeq == InitSeq /\ [][NextSeq]_vars

----------------------------------------------------------------------------
(* Properties *)

Metrics == {"pdr", "tx", "rx", "delay_ms", "ctrl_tx", "ctrl_rx", "ctrl_dropped"}

Calls(design) ==
    {k \in 1..Len(invocations) : invocations[k].design = design}

\* main has got past the named collection.
BaselineReturned ==
    \/ pc \in {"freq", "thresh", "save", "graphs", "summary", "done"}
    \/ pc = "raised" /\ error.at \in {"collect_threshold_data",
                                      "create_research_style_graphs",
                                      "print_summary_table"}
FreqReturned ==
    \/ pc \in {"thresh", "save", "graphs", "summary", "done"}
    \/ pc = "raised" /\ error.at \in {"collect_threshold_data",
                                      "create_research_style_graphs",
                                      "print_summary_table"}
ThreshReturned ==
    \/ pc \in {"save", "graphs", "summary", "done"}
    \/ pc = "raised" /\ error.at \in {"create_research_style_graphs",
                                      "print_summary_table"}

\* The pipeline has ended after its set-up had succeeded.
PipelineEnded ==
    \/ pc = "done"
    \/ pc = "raised" /\ error.at # "module"

\* C1: partial-failure resilience of collect_threshold_data.  Whatever set F
\* of the thresholds 5,10,20,30,50 has its run_simulation call return None,
\* no exception is raised, and the returned dataset holds exactly one SecRPL
\* record for each threshold not in F, in the order of the thresholds.
C1_ThresholdSweepSurvivesFailures ==
    LET Succeeded(t) ==
            \E k \in Calls("thresh") :
                invocations[k].cmd.threshold = t /\ invocations[k].ok
    IN /\ ~(pc = "raised" /\ error.at = "collect_threshold_data")
       /\ ThreshReturned =>
            /\ [i \in 1..Len(thresh_df) |-> thresh_df[i].threshold]
                 = SelectSeq(<<5, 10, 20, 30, 50>>, Succeeded)
            /\ \A i \in 1..Len(thresh_df) : thresh_df[i].scenario = "SecRPL"

\* C2: an empty or partially filled dataset is never an error downstream:
\* create_research_style_graphs and print_summary_table complete without
\* raising for every pattern of succeeded and failed runs.
C2_ReportingNeverRaises ==
    ~(pc = "raised" /\ error.at \in {"create_research_style_graphs",
                                     "print_summary_table"})

\* C3: after an invocation that exited with status 0, run_simulation
\* returns a record if and only if the three artifacts are present, each
\* with a data row, and the seven required values are all numeric; in every
\* other case it returns None.
C3_ParserRejectsMalformedArtifacts ==
    (pc = "called" /\ invocations[1].exit = 0) =>
        (result.ok <=>
            /\ \A f \in {"pdr", "delay", "overhead"} : artifacts[f].st = "rows"
            /\ \A c \in PdrCols : IsNum(artifacts.pdr.row[c])
            /\ \A c \in DelayCols : IsNum(artifacts.delay.row[c])
            /\ \A c \in OverheadCols : IsNum(artifacts.overhead.row[c]))

\* C4: a call run_simulation(attack=False, ...) forwards the attack flag
\* (false) and nNodes, area, rateKbps and simTime only, whatever attacker_pps,
\* threshold and window it is given.
C4_NoAttackCommandCarriesNoAttackParameter ==
    (pc = "called" /\ ~args.attack) =>
        LET cmd == invocations[1].cmd
        IN /\ DOMAIN cmd = {"attack", "nNodes", "area", "rateKbps", "simTime"}
           /\ cmd.attack = "false"
           /\ cmd.nNodes = args.n_nodes
           /\ cmd.simTime = args.sim_time
           /\ cmd.area = 60
           /\ cmd.rateKbps = 16

C4_Witness ==
    /\ pc = "called"
    /\ ~args.attack
    /\ args.attacker_pps = 200
    /\ args.threshold = 1000000000
    /\ args.window = 2
    /\ Len(invocations) = 1

\* C5: collect_attack_frequency_data invokes the no-attack simulation once;
\* when that run returns a record, the dataset holds five RPL rows, one per
\* rate 200..1000 in that order, all with the metrics of that one run; when
\* it returns None there is no RPL row.  The number of RPL rows is 0 or 5 at
\* all times, however the attack runs fare.
C5_OneBaselineRunBroadcast ==
    LET noAttack == {k \in Calls("freq") : invocations[k].cmd.attack = "false"}
        rpl == Filter(freq_df, "RPL")
    IN /\ Cardinality(noAttack) <= 1
       /\ FreqReturned => Cardinality(noAttack) = 1
       /\ Len(rpl) \in {0, 5}
       /\ \A k \in noAttack :
            IF invocations[k].ok
            THEN /\ Len(rpl) = 5
                 /\ \A i \in 1..5 :
                      /\ rpl[i].attack_pps = <<200, 400, 600, 800, 1000>>[i]
                      /\ rpl[i].run = k
                      /\ \A m \in Metrics : rpl[i][m] = rpl[1][m]
            ELSE Len(rpl) = 0
       /\ noAttack = {} => Len(rpl) = 0
       /\ (pc = "thresh" /\ idx = 1 /\ result.ok) =>
            \A i \in 1..Len(rpl) : \A m \in Metrics : rpl[i][m] = result.rec[m]

C5_Witness ==
    /\ pc = "done"
    /\ Len(Filter(freq_df, "RPL")) = 5
    /\ Len(Filter(freq_df, "InsecRPL")) = 4
    /\ Len(Filter(freq_df, "SecRPL")) = 4

\* C6: at every moment of the building of the frequency and threshold
\* datasets, and in the finished datasets, a (scenario, swept value) pair
\* occurs at most once; only runs that returned a record add rows, so the
\* frequency dataset has at most 15 rows and the threshold dataset at most 5.
C6_SweepPairsUnique ==
    LET okAttack == {k \in Calls("freq") :
                        invocations[k].ok /\ invocations[k].cmd.attack = "true"}
        okRpl == {k \in Calls("freq") :
                        invocations[k].ok /\ invocations[k].cmd.attack = "false"}
        okThresh == {k \in Calls("thresh") : invocations[k].ok}
    IN /\ \A i, j \in 1..Len(freq_df) :
            (freq_df[i].scenario = freq_df[j].scenario
             /\ freq_df[i].attack_pps = freq_df[j].attack_pps) => i = j
       /\ \A i, j \in 1..Len(thresh_df) :
            (thresh_df[i].scenario = thresh_df[j].scenario
             /\ thresh_df[i].threshold = thresh_df[j].threshold) => i = j
       /\ Len(freq_df) = Cardinality(okAttack) + 5 * Cardinality(okRpl)
       /\ Len(thresh_df) = Cardinality(okThresh)
       /\ Len(freq_df) <= 15
       /\ Len(thresh_df) <= 5

C6_Witness ==
    /\ pc = "done"
    /\ Len(freq_df) = 15
    /\ Len(thresh_df) = 4
    /\ \E k \in Calls("thresh") : ~invocations[k].ok

\* C7: no retries.  No combination is invoked twice; when the pipeline ends,
\* whatever the outcomes of the runs, all 19 combinations have been invoked
\* (3 baseline, 11 frequency, 5 threshold), and a combination whose run
\* returned no record has no row in its dataset.
C7_EveryCombinationInvokedOnce ==
    /\ \A i, j \in 1..Len(invocations) :
          (invocations[i].design = invocations[j].design
           /\ invocations[i].combo = invocations[j].combo) => i = j
    /\ PipelineEnded =>
          /\ Len(invocations) = 19
          /\ Cardinality(Calls("baseline")) = 3
          /\ Cardinality(Calls("freq")) = 11
          /\ Cardinality(Calls("thresh")) = 5
          /\ \A k \in 1..Len(invocations) :
                ~invocations[k].ok =>
                    \A r \in Range(baseline_df) \cup Range(freq_df)
                             \cup Range(thresh_df) : r.run # k

\* C8: print_summary_table prints the key findings if and only if the
\* baseline dataset holds both an InsecRPL and a SecRPL row, whether or not it
\* holds an RPL row; when either is missing it prints none of them and does
\* not raise.
C8_SummaryIffBothAttackRows ==
    LET ran == pc = "done" \/ (pc = "raised" /\ error.at = "print_summary_table")
        both == /\ \E i \in 1..Len(baseline_df) : baseline_df[i].scenario = "InsecRPL"
                /\ \E i \in 1..Len(baseline_df) : baseline_df[i].scenario = "SecRPL"
        findings == {i \in 1..Len(summary) : summary[i].what # "table"}
    IN ran =>
         /\ (\E i \in findings : summary[i].what = "improvement") <=> both
         /\ ~both => (findings = {} /\ pc = "done")

C8_Witness ==
    /\ pc = "done"
    /\ ~HasScenario(baseline_df, "RPL")
    /\ \E i \in 1..Len(summary) : summary[i].what = "improvement"
    /\ \E i \in 1..Len(summary) : summary[i].what = "blocked"

\* C9: when the NS-3 directory, its scratch folder or the simulator source
\* is not there, no simulator invocation is ever made, no dataset is built or
\* persisted and no chart is rendered.
C9_SetupErrorsAbortBeforeAnySweep ==
    (~fs.ns3 \/ ~fs.scratch \/ ~fs.code) =>
        /\ invocations = <<>>
        /\ baseline_df = <<>> /\ freq_df = <<>> /\ thresh_df = <<>>
        /\ ~persisted.saved
        /\ charts = {}
        /\ summary = <<>>
        /\ pc \in {"import", "verify", "main", "exit1", "returned", "raised"}

C9_Witness ==
    /\ pc = "returned"
    /\ fs.ns3 /\ fs.scratch /\ ~fs.code
    /\ invocations = <<>>

\* C10: every row of every dataset carries the label that matches the
\* command of the invocation it came from: RPL for --attack=false, InsecRPL
\* for an attack with threshold 1000000000, SecRPL for an attack with a real
\* threshold (20 in the baseline and the frequency sweep, the swept value in
\* the threshold sweep); its attack_pps or threshold column is the value on
\* that command line, and for the copied RPL rows the rate of their bucket.
C10_LabelsMatchInvocations ==
    LET Cmd(r) == invocations[r.run].cmd
        FromRun(r, design) ==
            /\ r.run \in 1..Len(invocations)
            /\ invocations[r.run].design = design
        Label(r, real) ==
            CASE r.scenario = "RPL" -> Cmd(r).attack = "false"
              [] r.scenario = "InsecRPL" ->
                    Cmd(r).attack = "true" /\ Cmd(r).threshold = 1000000000
              [] r.scenario = "SecRPL" ->
                    Cmd(r).attack = "true" /\ Cmd(r).threshold = real
              [] OTHER -> FALSE
        rpl == Filter(freq_df, "RPL")
    IN /\ \A r \in Range(baseline_df) : FromRun(r, "baseline") /\ Label(r, 20)
       /\ \A r \in Range(freq_df) :
            /\ FromRun(r, "freq")
            /\ Label(r, 20)
            /\ r.scenario # "RPL" => r.attack_pps = Cmd(r).attackerPps
       /\ \A i \in 1..Len(rpl) :
            rpl[i].attack_pps = <<200, 400, 600, 800, 1000>>[i]
       /\ \A r \in Range(thresh_df) :
            /\ FromRun(r, "thresh")
            /\ r.scenario = "SecRPL"
            /\ Label(r, r.threshold)
            /\ r.threshold \in {5, 10, 20, 30, 50}

C10_Witness ==
    /\ pc = "done"
    /\ Len(baseline_df) = 3
    /\ Len(freq_df) = 15
    /\ Len(thresh_df) = 5

----------------------------------------------------------------------------
(* Row order *)

\* The fixed combination order of each design, as the key a row is labelled
\* with: the scenario, and the swept value where the design has one.
BaselineOrder == [i \in 1..Len(BaselineRuns) |-> <<BaselineRuns[i].label>>]

FreqOrder ==
    [i \in 1..NumFreqRuns |-> <<FreqRun(i).label, FreqRun(i).pps>>]
    \o [i \in 1..Len(frequencies) |-> <<"RPL", frequencies[i]>>]

ThreshOrder == [i \in 1..Len(thresholds) |-> <<"SecRPL", thresholds[i]>>]

BaselineKeys == [i \in 1..Len(baseline_df) |-> <<baseline_df[i].scenario>>]

FreqKeys ==
    [i \in 1..Len(freq_df) |-> <<freq_df[i].scenario, freq_df[i].attack_pps>>]

ThreshKeys ==
    [i \in 1..Len(thresh_df) |->
        <<thresh_df[i].scenario, thresh_df[i].threshold>>]

\* The place of key k in an order; the keys of an order are distinct.
Place(order, k) == CHOOSE p \in 1..Len(order) : order[p] = k

\* keys is order with some of its elements left out: every key is a key of
\* the order and each stands later in the order than the key before it.
InOrder(keys, order) ==
    /\ \A i \in 1..Len(keys) : keys[i] \in Range(order)
    /\ \A i \in 1..(Len(keys) - 1) :
          Place(order, keys[i]) < Place(order, keys[i + 1])

IsPrefix(s, t) == Len(s) <= Len(t) /\ SubSeq(t, 1, Len(s)) = s

RowsInOrder ==
    /\ InOrder(BaselineKeys, BaselineOrder)
    /\ InOrder(FreqKeys, FreqOrder)
    /\ InOrder(ThreshKeys, ThreshOrder)

AppendOnly ==
    /\ IsPrefix(baseline_df, baseline_df')
    /\ IsPrefix(freq_df, freq_df')
    /\ IsPrefix(thresh_df, thresh_df')

\* C11: in every state the rows of each of the three datasets are a
\* subsequence of the design's fixed combination order (baseline: RPL,
\* InsecRPL, SecRPL; frequency sweep: per rate InsecRPL then SecRPL, then the
\* RPL rows in ascending rate; threshold sweep: 5, 10, 20, 30, 50), and every
\* step leaves the rows a dataset already has in place and only adds rows
\* after them, whichever runs fail.
C11_RowsFollowEnumerationOrder == []RowsInOrder /\ [][AppendOnly]_vars

\* The three collections have returned with one run of the frequency sweep
\* and one of the threshold sweep missing from their datasets.
C11_Witness ==
    /\ pc = "save"
    /\ Len(baseline_df) = 3
    /\ Len(freq_df) = 14
    /\ Len(thresh_df) = 4

----------------------------------------------------------------------------
(* Sweep determinism *)

\* The columns of frequency_data.csv.
FreqColumns == Metrics \cup {"scenario", "attack_pps"}

\* A dataset as it is saved: its rows in order, each with its columns only.
Dataset(df) == [i \in 1..Len(df) |-> [k \in FreqColumns |-> df[i][k]]]

\* C12: when two executions of collect_attack_frequency_data have had, call
\* by call, the same exit status and the same artifact contents left after
\* the call, their datasets are identical: the same number of rows, the same
\* values, in the same order.
C12_SweepDeterminism ==
    twin.same => Dataset(freq_df) = Dataset(twin.freq_df)

\* Both executions have returned all fifteen rows after the same exit
\* statuses and contents, one of them having read a file that was already
\* there where the other read the file its run wrote.
C12_Witness ==
    /\ pc = "returned"
    /\ twin.same
    /\ Len(freq_df) = NumFreqRuns + Len(frequencies)
    /\ freq_df # twin.freq_df

----------------------------------------------------------------------------
(* The key findings *)

\* print_summary_table has run: it returned, or raised after its prints.
SummaryRan ==
    pc = "done" \/ (pc = "raised" /\ error.at = "print_summary_table")

\* The values printed under `what`.
Printed(what) ==
    {summary[i].val : i \in {j \in 1..Len(summary) : summary[j].what = what}}

\* v is q/d rounded to the nearest integer (d > 0).
IsRounded(v, q, d) == 2 * v * d - d <= 2 * q /\ 2 * q < 2 * v * d + d

\* C13: when the summary has run on a baseline with an InsecRPL and a SecRPL
\* row, the improvement it prints is (mitigated pdr - attack-only pdr) /
\* attack-only pdr x 100 and the degradation is (1 - attack-only pdr) x 100,
\* to two decimals and without clamping: 0.75 and 0.91 give 21.33 and 25.00,
\* and a mitigated pdr below the attack-only pdr gives a negative improvement
\* that is printed like any other, the function returning normally.
C13_FindingsFollowTheFormulas ==
    (SummaryRan /\ BothPresent(baseline_df)) =>
        LET insec == Filter(baseline_df, "InsecRPL")[1]
            sec == Filter(baseline_df, "SecRPL")[1]
        IN (IsNum(insec.pdr) /\ IsNum(sec.pdr) /\ insec.pdr > 0) =>
            /\ \E l \in Printed("improvement") :
                /\ Printed("improvement") = {l}
                /\ l.finite
                /\ IsRounded(l.v, (sec.pdr - insec.pdr) * 10000, insec.pdr)
                /\ sec.pdr < insec.pdr => l.v < 0
                /\ (insec.pdr = 75 /\ sec.pdr = 91) => l.v = 2133
            /\ \E l \in Printed("degradation") :
                /\ Printed("degradation") = {l}
                /\ l.finite
                /\ l.v = 10000 - 100 * insec.pdr
                /\ insec.pdr = 75 => l.v = 2500
            /\ IsNum(sec.ctrl_dropped) => pc = "done"

\* The summary has returned after printing a negative improvement.
C13_Witness ==
    /\ pc = "done"
    /\ \E l \in Printed("improvement") : l.v < 0

----------------------------------------------------------------------------
(* The delay conversion *)

\* C14: whenever run_simulation has returned a record, the record's delay_ms
\* is a number and equals the avg_delay_s value of the delay artifact it
\* read multiplied by 1000.
C14_DelayIsSecondsTimes1000 ==
    (pc = "called" /\ Truthy(result)) =>
        /\ IsNum(result.rec.delay_ms)
        /\ result.rec.delay_ms = 1000 * artifacts.delay.row.avg_delay_s

----------------------------------------------------------------------------
(* Sequential execution *)

\* The invocations whose process has been started and has not ended.
InFlight == {k \in 1..Len(invocations) : invocations[k].exit = Running}

\* The invocations whose artifacts are still to be, or are being, read and
\* collected.
Uncollected ==
    {k \in 1..Len(invocations) : invocations[k].phase # "collected"}

\* A step that reads the artifacts is taken with no process in flight, for
\* the invocation that returned last, and any record it returns is that
\* invocation's.
ReadsAfterReturn ==
    (result' # result \/ (invocations # <<>> /\ Last.phase = "exited")) =>
        /\ InFlight = {}
        /\ Len(invocations') = Len(invocations)
        /\ Truthy(result') => result'.rec.run = Len(invocations)

\* C15: at most one simulator invocation is in flight in any state and at
\* most one is between its start and the append of its result, so that the
\* next invocation starts only after the one before it has been read; and
\* the artifacts are read only with no invocation in flight, on behalf of the
\* invocation that has just returned.
C15_StrictlySequential ==
    /\ [](Cardinality(InFlight) <= 1 /\ Cardinality(Uncollected) <= 1)
    /\ [][ReadsAfterReturn]_vars

\* The last of the nineteen invocations is in flight, the eighteen before it
\* have been read and collected.
C15_Witness ==
    /\ Len(invocations) = Len(BaselineRuns) + NumFreqRuns + 1 + Len(thresholds)
    /\ InFlight = {Len(invocations)}
    /\ Len(thresh_df) = Len(thresholds) - 1

----------------------------------------------------------------------------
(* Whose metrics a record carries *)

\* The three files this row was read from were written by the invocation
\* the row was returned for.
OwnMetrics(row) == row.by = <<row.run, row.run, row.run>>

\* C16: every row of every dataset carries the metrics written by the
\* invocation of its own combination: no row was read from an artifact that
\* an earlier run, or an earlier execution, had left at the results
\* location.
C16_RecordsCarryOwnMetrics ==
    \A df \in {baseline_df, freq_df, thresh_df} :
        \A i \in 1..Len(df) : OwnMetrics(df[i])

----------------------------------------------------------------------------
(* The start-up checks *)

\* The start-up step taken while the NS-3 directory does not exist creates
\* nothing and goes on to the checks.
NothingCreated == (pc = "import" /\ ~fs.ns3) => (fs' = fs /\ pc' = "verify")

\* The checks, finding no NS-3 directory, report that and exit with 1.
MissingPathReported ==
    (pc = "verify" /\ ~fs.ns3) =>
        (pc' = "exit1" /\ error' = Raised("module", "NS-3 path not found"))

\* C17: when the NS-3 directory does not exist at start-up, the program
\* creates no directory before its existence checks, and the checks then
\* report the NS-3 path as not found and the program exits with status 1.
C17_ChecksJudgeTheInitialFilesystem ==
    [][NothingCreated /\ MissingPathReported]_vars

----------------------------------------------------------------------------
(* The save of the datasets *)

NumInvocations == Len(BaselineRuns) + NumFreqRuns + 1 + Len(thresholds)

\* Chart rendering or the summary has begun.
ReportingBegun ==
    \/ charts # {}
    \/ summary # <<>>
    \/ pc \in {"summary", "done"}
    \/ pc = "raised" /\ error.at \in {"create_research_style_graphs",
                                      "print_summary_table"}

SavedInOrder ==
    /\ persisted.saved => Len(invocations) = NumInvocations
    /\ ReportingBegun => persisted.saved
    /\ persisted.saved =>
        /\ persisted.baseline = baseline_df
        /\ persisted.freq = freq_df
        /\ persisted.thresh = thresh_df

\* Once the datasets are saved, no step changes them or the saved files.
LeftUnchanged ==
    persisted.saved =>
        UNCHANGED <<baseline_df, freq_df, thresh_df, persisted, invocations>>

\* C18: the three datasets are saved only when all nineteen invocations have
\* finished; no chart is rendered and no summary line is printed before they
\* are saved; what is saved is what the three collections returned, and
\* chart rendering and the summary leave the datasets and the saved files as
\* they are; for every pattern of failed runs, every run failing included.
C18_SavedAfterAllRunsBeforeReporting ==
    []SavedInOrder /\ [][LeftUnchanged]_vars

\* Every one of the nineteen runs has failed, the three empty datasets have
\* been saved, and the charts and the summary have run on them.
C18_Witness ==
    /\ pc = "done"
    /\ persisted.saved
    /\ Len(invocations) = NumInvocations
    /\ \A k \in 1..Len(invocations) : invocations[k].exit # 0
    /\ persisted.baseline = <<>> /\ persisted.freq = <<>>
    /\ persisted.thresh = <<>>

====
